---- MODULE Spec2Model ----
(***************************************************************************)
(* The durable key-value store of kvstore.py: an in-memory dictionary      *)
(* (KeyValueStore._kv) backed by an append-only text log (data.db), which  *)
(* _load_log replays at construction.                                      *)
(*                                                                         *)
(* A Python str is a sequence of one-character strings, so that strip,     *)
(* startswith, split and the line iteration of a text file are computed    *)
(* as Python computes them.                                                *)
(***************************************************************************)
EXTENDS Integers, Sequences, FiniteSets, TLC

VARIABLES
    pc,        \* "Uninitialized" (no store object) or "Ready" (after __init__)
    kv,        \* KeyValueStore._kv: the Table, a function key -> value
    exists,    \* whether the log file data.db exists
    log,       \* the content of data.db, a sequence of characters
    bak,       \* the content of data.db.bak (<<>> while it was never written)
    last,      \* history: the last operation, its key and its outcome
    acked,     \* history: key -> value of the last Set that returned normally
    attempted, \* history: <<key, value>> of the Sets that did not return normally
    sets,      \* history: <<key, value>> of the Sets that returned in this process
    logAtLoad, \* history: the log as the last _load_log left it
    log0,      \* history: the log as it was before the first __init__
    loaded,    \* history: the Table the last _load_log returned
    nLoads,    \* history: number of __init__ calls so far
    nSets,     \* history: number of Set calls that reached the log
    nFaults,   \* history: number of I/O failures and crashes so far
    dirty,     \* history: a Set has touched the log since the last _load_log
    plain,     \* history: every Set that returned wrote a line that replays to itself
    kv_store,  \* kv_store.py: the list of (key, value) tuples of the second program
    stdin,     \* run_cli: the input lines not read yet
    stdout,    \* run_cli: the lines printed so far
    rc,        \* run_cli: Running until it returns, then the status returned
    stdin0     \* history: the whole input given to run_cli

vars == <<pc, kv, exists, log, bak, last, acked, attempted, sets, logAtLoad,
          log0, loaded, nLoads, nSets, nFaults, dirty, plain,
          kv_store, stdin, stdout, rc, stdin0>>

\* the state of run_cli, and all that the store itself does not touch
cli == <<stdin, stdout, rc, stdin0>>
ext == <<kv_store, stdin, stdout, rc, stdin0>>

file == <<exists, log, bak>>
hist == <<acked, attempted, sets, logAtLoad, log0, loaded, nLoads, nSets,
          nFaults, dirty, plain>>

----------------------------------------------------------------------------
(* Bounds of the model *)

MaxSets == 2     \* Set calls with an accepted key, over the whole history
MaxLoads == 3    \* constructions of a KeyValueStore on the file
MaxFaults == 1   \* failed appends and crashes, over the whole history
MaxLines == 3    \* lines of a log file given to replay
MaxCmds == 4     \* input lines given to run_cli

(* Program constant: the longest key _validate_key accepts *)
MaxKeyLen == 256

----------------------------------------------------------------------------
(* Python str helpers *)

\* the characters str.strip() removes (those of them the model writes)
Whitespace == {" ", "\n", "\t", "\r"}

\* the literal "SET " of the record format
SetPrefix == <<"S", "E", "T", " ">>

RECURSIVE lstrip(_)
lstrip(s) ==
    IF s # <<>> /\ Head(s) \in Whitespace THEN lstrip(Tail(s)) ELSE s

RECURSIVE rstrip(_)
rstrip(s) ==
    IF s # <<>> /\ s[Len(s)] \in Whitespace
    THEN rstrip(SubSeq(s, 1, Len(s) - 1)) ELSE s

\* str.strip(): leading and trailing whitespace removed
strip(s) == rstrip(lstrip(s))

\* str.startswith(p)
startswith(s, p) == Len(s) >= Len(p) /\ SubSeq(s, 1, Len(p)) = p

\* index of the first occurrence of character c in s, 0 if there is none
find(s, c) ==
    IF \E i \in 1..Len(s) : s[i] = c
    THEN CHOOSE i \in 1..Len(s) : s[i] = c /\ \A j \in 1..(i - 1) : s[j] # c
    ELSE 0

\* str.split(sep, maxsplit): at most maxsplit cuts, empty fields kept
RECURSIVE split(_, _, _)
split(s, sep, maxsplit) ==
    IF maxsplit = 0 \/ find(s, sep) = 0
    THEN <<s>>
    ELSE <<SubSeq(s, 1, find(s, sep) - 1)>>
         \o split(SubSeq(s, find(s, sep) + 1, Len(s)), sep, maxsplit - 1)

\* `for line in f`: the lines of a text file, each with its "\n" when it has one
RECURSIVE readlines(_)
readlines(f) ==
    IF f = <<>> THEN <<>>
    ELSE IF find(f, "\n") = 0 THEN <<f>>
    ELSE <<SubSeq(f, 1, find(f, "\n"))>>
         \o readlines(SubSeq(f, find(f, "\n") + 1, Len(f)))

----------------------------------------------------------------------------
(* The Table *)

EmptyTable == [k \in {} |-> <<>>]

\* self._kv[key] = value
put(table, key, value) ==
    [k \in (DOMAIN table) \cup {key} |-> IF k = key THEN value ELSE table[k]]

\* dict.get(key): Optional[str] as a tag and the string
lookup(table, key) ==
    IF key \in DOMAIN table
    THEN [res |-> "Some", out |-> table[key]]
    ELSE [res |-> "None", out |-> <<>>]

----------------------------------------------------------------------------
(* Utility helpers of kvstore.py *)

\* the line KeyValueStore.set appends: f"SET {key} {value}\n"
record(key, value) == SetPrefix \o key \o <<" ">> \o value \o <<"\n">>

\* a variant that opens the file for writing instead of appending
_atomic_append_truncating(content, line) == line

\* _atomic_append, completed: the line is at the end of the file
_atomic_append(content, line) == content \o line

\* a variant without the length check
_validate_key_unbounded(key) == strip(key) # <<>>

\* _validate_key: TRUE when it returns, FALSE when it raises ValueError
_validate_key(key) == strip(key) # <<>> /\ Len(key) <= MaxKeyLen

\* The loop of _load_log over the lines: the dictionary built so far and
\* whether a line raised (a line that starts with "SET " and splits into
\* fewer than three fields fails to unpack, which ends the loop).
RECURSIVE replay(_, _)
replay(lines, table) ==
    IF lines = <<>> THEN [kv |-> table, raised |-> FALSE]
    ELSE LET line == strip(Head(lines))
             parts == split(line, " ", 2)
         IN  IF ~startswith(line, SetPrefix)
             THEN replay(Tail(lines), table)
             ELSE IF Len(parts) # 3
             THEN [kv |-> table, raised |-> TRUE]
             ELSE replay(Tail(lines), put(table, parts[2], parts[3]))

\* _load_log: the dictionary returned and the files as the call leaves them.
\* replaced: whether os.replace(path, bak) succeeds when it is attempted.
_load_log(present, content, backup, replaced) ==
    IF ~present
    THEN \* FileNotFoundError: path.touch()
         [kv |-> EmptyTable, log |-> <<>>, bak |-> backup, warned |-> FALSE]
    ELSE LET r == replay(readlines(content), EmptyTable)
         IN  IF ~r.raised
             THEN [kv |-> r.kv, log |-> content, bak |-> backup, warned |-> FALSE]
             ELSE IF replaced
             THEN \* the log is moved to .bak and an empty log is created
                  [kv |-> r.kv, log |-> <<>>, bak |-> content, warned |-> TRUE]
             ELSE \* OSError swallowed; touch leaves the file as it is
                  [kv |-> r.kv, log |-> content, bak |-> backup, warned |-> TRUE]

\* _load_log when path.open("r") raises an OSError other than
\* FileNotFoundError (permission denied, I/O error): the `except Exception`
\* clause runs with an empty dictionary.  replaced: os.replace succeeds;
\* touched: path.touch() on the file left in place succeeds, otherwise its
\* OSError leaves _load_log (raised).
_load_log_unreadable(content, backup, replaced, touched) ==
    IF replaced
    THEN [kv |-> EmptyTable, log |-> <<>>, bak |-> content, raised |-> FALSE]
    ELSE [kv |-> EmptyTable, log |-> content, bak |-> backup, raised |-> ~touched]

\* a Set's own line, replayed alone, gives back exactly its key and value
ReplaysToItself(key, value) ==
    LET r == replay(readlines(record(key, value)), EmptyTable)
    IN  ~r.raised /\ r.kv = put(EmptyTable, key, value)

----------------------------------------------------------------------------
(* kv_store.py: the store kept as a list of (key, value) tuples *)

\* set_in_memory: the first tuple of the key is replaced, else one is appended
set_in_memory(store, key, value) ==
    IF \E i \in DOMAIN store : store[i][1] = key
    THEN LET i == CHOOSE i \in DOMAIN store :
                    store[i][1] = key /\ \A j \in 1..(i - 1) : store[j][1] # key
         IN  [store EXCEPT ![i] = <<key, value>>]
    ELSE Append(store, <<key, value>>)

\* the loop of load_data over the lines
RECURSIVE load_lines(_, _)
load_lines(lines, store) ==
    IF lines = <<>> THEN store
    ELSE LET parts == split(strip(Head(lines)), " ", 2)
         IN  IF Len(parts) = 3 /\ parts[1] = <<"S", "E", "T">>
             THEN load_lines(Tail(lines), set_in_memory(store, parts[2], parts[3]))
             ELSE load_lines(Tail(lines), store)

\* load_data: nothing when the file is absent, else every line is replayed
load_data(present, content, store) ==
    IF ~present THEN store ELSE load_lines(readlines(content), store)

\* get_from_memory: the value of the last tuple of the key, or None
get_from_memory(store, key) ==
    IF \E i \in DOMAIN store : store[i][1] = key
    THEN LET i == CHOOSE i \in DOMAIN store :
                    store[i][1] = key /\ \A j \in DOMAIN store : j > i => store[j][1] # key
         IN  [res |-> "Some", out |-> store[i][2]]
    ELSE [res |-> "None", out |-> <<>>]

----------------------------------------------------------------------------
(* Inputs *)

\* a key longer than _validate_key accepts
LongKey == [i \in 1..(MaxKeyLen + 1) |-> "a"]

\* keys _validate_key accepts: plain ones, and one with a leading space
ValidKeys == {<<"a">>, <<"b">>, <<" ", "a">>}

\* keys _validate_key rejects: empty, whitespace only, too long
InvalidKeys == {<<>>, <<" ">>, LongKey}

Keys == ValidKeys \cup InvalidKeys

\* values: empty, plain, and one holding a space
Values == {<<>>, <<"1">>, <<"1", " ", "2">>}

NoArg == <<>>

\* run_cli has not returned
Running == "running"

\* run_cli returned 0
Status0 == "0"

\* no second program and no command loop
NoExt ==
    kv_store = <<>> /\ stdin = <<>> /\ stdout = <<>> /\ rc = Running /\ stdin0 = <<>>

\* the outcome of an operation, as `last` records it
Outcome(op, key, res, out) ==
    [op |-> op, key |-> key, res |-> res, out |-> out]

----------------------------------------------------------------------------
(* Operations *)

\* KeyValueStore.__init__: a fresh store on the file; mkdir, then _load_log
__init__ ==
    /\ pc = "Uninitialized"
    /\ nLoads < MaxLoads
    /\ \E replaced \in BOOLEAN :
         LET r == _load_log(exists, log, bak, replaced)
         IN  /\ kv' = r.kv
             /\ exists' = TRUE
             /\ log' = r.log
             /\ bak' = r.bak
             /\ logAtLoad' = r.log
             /\ loaded' = r.kv
             /\ last' = Outcome("load", NoArg,
                                IF r.warned THEN "Warning" ELSE "OK", NoArg)
    /\ pc' = "Ready"
    /\ sets' = <<>>
    /\ nLoads' = nLoads + 1
    /\ dirty' = FALSE
    /\ UNCHANGED <<acked, attempted, log0, nSets, nFaults, plain>>

\* KeyValueStore.__init__ on a log file that cannot be opened for reading
InitOpenError ==
    /\ pc = "Uninitialized"
    /\ exists
    /\ nLoads < MaxLoads
    /\ nFaults < MaxFaults
    /\ \E replaced \in BOOLEAN, touched \in BOOLEAN :
         LET r == _load_log_unreadable(log, bak, replaced, touched)
         IN  /\ kv' = r.kv
             /\ log' = r.log
             /\ bak' = r.bak
             /\ logAtLoad' = r.log
             /\ loaded' = r.kv
             /\ pc' = IF r.raised THEN "Uninitialized" ELSE "Ready"
             /\ last' = Outcome("load_unreadable", NoArg,
                                IF r.raised THEN "IOError" ELSE "Warning", NoArg)
    /\ sets' = <<>>
    /\ nLoads' = nLoads + 1
    /\ nFaults' = nFaults + 1
    /\ dirty' = FALSE
    /\ UNCHANGED <<exists, acked, attempted, log0, nSets, plain>>

\* the process ends (run_cli returns, main calls sys.exit): the Table is gone
Exit ==
    /\ pc = "Ready"
    /\ pc' = "Uninitialized"
    /\ kv' = EmptyTable
    /\ last' = Outcome("exit", NoArg, "OK", NoArg)
    /\ UNCHANGED <<file, hist>>

\* KeyValueStore.set with a key _validate_key rejects: ValueError
SetInvalid(key, value) ==
    /\ pc = "Ready"
    /\ ~_validate_key(key)
    /\ last' = Outcome("set", key, "InvalidArgument", NoArg)
    /\ UNCHANGED <<pc, kv, file, hist>>

\* KeyValueStore.set with an accepted key, returning normally:
\* self._kv[key] = value, then _atomic_append
SetOk(key, value) ==
    /\ pc = "Ready"
    /\ _validate_key(key)
    /\ nSets < MaxSets
    /\ kv' = put(kv, key, value)
    /\ log' = _atomic_append(log, record(key, value))
    /\ last' = Outcome("set", key, "OK", NoArg)
    /\ acked' = put(acked, key, value)
    /\ sets' = Append(sets, <<key, value>>)
    /\ nSets' = nSets + 1
    /\ dirty' = TRUE
    /\ plain' = (plain /\ ReplaysToItself(key, value))
    /\ UNCHANGED <<pc, exists, bak, attempted, logAtLoad, log0, loaded, nLoads,
                   nFaults>>

\* KeyValueStore.set
set(key, value) == SetInvalid(key, value) \/ SetOk(key, value)

\* KeyValueStore.set whose _atomic_append raises OSError after `written`
\* characters of the line reached the file: self._kv[key] = value is already done
SetIOError(key, value, written) ==
    /\ pc = "Ready"
    /\ _validate_key(key)
    /\ nSets < MaxSets
    /\ nFaults < MaxFaults
    /\ kv' = put(kv, key, value)
    /\ log' = _atomic_append(log, SubSeq(record(key, value), 1, written))
    /\ last' = Outcome("set", key, "IOError", NoArg)
    /\ attempted' = attempted \cup {<<key, value>>}
    /\ nSets' = nSets + 1
    /\ nFaults' = nFaults + 1
    /\ dirty' = TRUE
    /\ UNCHANGED <<pc, exists, bak, acked, sets, logAtLoad, log0, loaded, nLoads,
                   plain>>

\* the process dies inside _atomic_append, after `written` characters of the
\* line reached the file: set never returns and the Table is gone
Crash(key, value, written) ==
    /\ pc = "Ready"
    /\ _validate_key(key)
    /\ nSets < MaxSets
    /\ nFaults < MaxFaults
    /\ pc' = "Uninitialized"
    /\ kv' = EmptyTable
    /\ log' = _atomic_append(log, SubSeq(record(key, value), 1, written))
    /\ last' = Outcome("set", key, "Crash", NoArg)
    /\ attempted' = attempted \cup {<<key, value>>}
    /\ nSets' = nSets + 1
    /\ nFaults' = nFaults + 1
    /\ dirty' = TRUE
    /\ UNCHANGED <<exists, bak, acked, sets, logAtLoad, log0, loaded, nLoads,
                   plain>>

\* a variant that rejects only the empty key
get_returns_nonempty(table, key) ==
    IF strip(key) # <<>>
    THEN lookup(table, key)
    ELSE [res |-> "InvalidArgument", out |-> NoArg]

\* what KeyValueStore.get returns or raises: _validate_key, then self._kv.get(key)
get_returns(table, key) ==
    IF _validate_key(key)
    THEN lookup(table, key)
    ELSE [res |-> "InvalidArgument", out |-> NoArg]

\* a variant that takes the entry out of the dictionary (dict.pop)
get_popping(key) ==
    /\ pc = "Ready"
    /\ last' = Outcome("get", key, get_returns(kv, key).res, get_returns(kv, key).out)
    /\ kv' = [k \in (DOMAIN kv) \ {key} |-> kv[k]]
    /\ UNCHANGED <<pc, file, hist>>

\* KeyValueStore.get
get(key) ==
    /\ pc = "Ready"
    /\ last' = Outcome("get", key, get_returns(kv, key).res, get_returns(kv, key).out)
    /\ UNCHANGED <<pc, kv, file, hist>>

----------------------------------------------------------------------------
(* Specifications *)

\* before the first run: no log file, no store
Init ==
    /\ pc = "Uninitialized"
    /\ kv = EmptyTable
    /\ exists = FALSE
    /\ log = <<>>
    /\ bak = <<>>
    /\ last = Outcome("none", NoArg, "OK", NoArg)
    /\ acked = EmptyTable
    /\ attempted = {}
    /\ sets = <<>>
    /\ logAtLoad = <<>>
    /\ log0 = <<>>
    /\ loaded = EmptyTable
    /\ nLoads = 0
    /\ nSets = 0
    /\ nFaults = 0
    /\ dirty = FALSE
    /\ plain = TRUE
    /\ NoExt

\* operation without I/O failures
Next ==
    \/ __init__ /\ UNCHANGED ext
    \/ Exit /\ UNCHANGED ext
    \/ \E key \in Keys, value \in Values : set(key, value) /\ UNCHANGED ext
    \/ \E key \in Keys : get(key) /\ UNCHANGED ext

Spec == Init /\ [][Next]_vars

\* operation with failing appends and crashes inside an append
NextFault ==
    \/ Next
    \/ \E key \in ValidKeys, value \in Values :
         \E written \in 0..Len(record(key, value)) :
            SetIOError(key, value, written) /\ UNCHANGED ext
    \/ \E key \in ValidKeys, value \in Values :
         \E written \in 0..Len(record(key, value)) :
            Crash(key, value, written) /\ UNCHANGED ext

SpecFault == Init /\ [][NextFault]_vars

\* operation with a log file that may be unreadable at startup
NextIO ==
    \/ Next
    \/ InitOpenError /\ UNCHANGED ext

SpecIO == Init /\ [][NextIO]_vars

----------------------------------------------------------------------------
(* Replay of a log file the store finds at startup *)

\* a SET line cut after the key: too few fields
ShortLine == <<"S", "E", "T", " ", "a", "\n">>

\* a line with another prefix
OtherLine == <<"G", "E", "T", " ", "a", "\n">>

\* the complete lines of the files replayed
ReplayLines ==
    { record(<<"a">>, <<"1">>), record(<<"b">>, <<"1", " ", "2">>),
      record(<<"b">>, <<>>), ShortLine, OtherLine }

\* what follows the last complete line: nothing, or a line cut short
ReplayTails ==
    { <<>>, <<"S", "E", "T", " ", "b">>, <<"S", "E", "T", " ", "b", " ", "1">> }

RECURSIVE concat(_)
concat(lines) == IF lines = <<>> THEN <<>> ELSE Head(lines) \o concat(Tail(lines))

ReplayFiles ==
    { concat(ls) \o tail :
        ls \in UNION { [1..n -> ReplayLines] : n \in 0..MaxLines },
        tail \in ReplayTails }

\* a log file is there before the first run
InitReplay ==
    /\ pc = "Uninitialized"
    /\ kv = EmptyTable
    /\ exists = TRUE
    /\ log \in ReplayFiles
    /\ bak = <<>>
    /\ last = Outcome("none", NoArg, "OK", NoArg)
    /\ acked = EmptyTable
    /\ attempted = {}
    /\ sets = <<>>
    /\ logAtLoad = <<>>
    /\ log0 = log
    /\ loaded = EmptyTable
    /\ nLoads = 0
    /\ nSets = 0
    /\ nFaults = 0
    /\ dirty = FALSE
    /\ plain = TRUE
    /\ NoExt

\* restarts and reads on the file found
NextReplay ==
    \/ __init__ /\ UNCHANGED ext
    \/ Exit /\ UNCHANGED ext
    \/ \E key \in Keys : get(key) /\ UNCHANGED ext

SpecReplay == InitReplay /\ [][NextReplay]_vars

----------------------------------------------------------------------------
(* The two programs side by side: the same file and the same SETs *)

\* both programs start on the log file found
BothLoad ==
    /\ __init__
    /\ kv_store' = load_data(exists, log, kv_store)
    /\ UNCHANGED cli

\* the same SET reaches both stores
BothSet(key, value) ==
    /\ SetOk(key, value)
    /\ kv_store' = set_in_memory(kv_store, key, value)
    /\ UNCHANGED cli

NextBoth ==
    \/ BothLoad
    \/ \E key \in ValidKeys, value \in Values : BothSet(key, value)

SpecBoth == InitReplay /\ [][NextBoth]_vars

----------------------------------------------------------------------------
(* run_cli: the command loop over the store *)

UpperChar(c) ==
    CASE c = "a" -> "A" [] c = "b" -> "B" [] c = "e" -> "E" [] c = "g" -> "G"
      [] c = "i" -> "I" [] c = "p" -> "P" [] c = "s" -> "S" [] c = "t" -> "T"
      [] c = "u" -> "U" [] c = "x" -> "X" [] OTHER -> c

\* str.upper()
upper(s) == [i \in 1..Len(s) |-> UpperChar(s[i])]

CmdSet == <<"S", "E", "T">>
CmdGet == <<"G", "E", "T">>
CmdExit == <<"E", "X", "I", "T">>

\* what run_cli prints
PrintOk == <<"O", "K">>
PrintError == <<"E", "R", "R", "O", "R">>

\* cmdline = raw.strip(); op, *rest = cmdline.split(" ", 1); op = op.upper()
parse(raw) ==
    LET parts == split(strip(raw), " ", 1)
    IN  [blank |-> strip(raw) = <<>>, op |-> upper(parts[1]), rest |-> Tail(parts)]

\* a variant that splits the arguments at every space
set_args_allsplit(arg) ==
    IF find(arg, " ") # 0
    THEN <<split(arg, " ", Len(arg))[1], split(arg, " ", Len(arg))[2]>>
    ELSE <<arg, <<>>>>

\* key and value of a SET: rest[0].split(" ", 1), or the value "" without a space
set_args(arg) ==
    IF find(arg, " ") # 0 THEN split(arg, " ", 1) ELSE <<arg, <<>>>>

\* print(val if val is not None else ""), or ERROR after a ValueError
get_prints(r) ==
    IF r.res = "InvalidArgument" THEN PrintError
    ELSE IF r.res = "None" THEN <<>>
    ELSE r.out

\* the loop has a line to read
CliReady == pc = "Ready" /\ rc = Running /\ stdin # <<>>

\* a variant in which a failed SET ends the loop
run_cli_set_fatal ==
    /\ CliReady
    /\ ~parse(Head(stdin)).blank
    /\ parse(Head(stdin)).op = CmdSet
    /\ parse(Head(stdin)).rest # <<>>
    /\ LET a == set_args(parse(Head(stdin)).rest[1])
       IN  \/ SetOk(a[1], a[2]) /\ stdout' = Append(stdout, PrintOk) /\ rc' = rc
           \/ SetInvalid(a[1], a[2]) /\ stdout' = stdout /\ rc' = "1"
    /\ stdin' = Tail(stdin)
    /\ UNCHANGED <<kv_store, stdin0>>

\* a SET line with arguments: store.set, then OK; ERROR when it raises
\* (a failed append wrote nothing, or the whole line before fsync failed)
run_cli_set ==
    /\ CliReady
    /\ ~parse(Head(stdin)).blank
    /\ parse(Head(stdin)).op = CmdSet
    /\ parse(Head(stdin)).rest # <<>>
    /\ LET a == set_args(parse(Head(stdin)).rest[1])
       IN  \/ SetOk(a[1], a[2]) /\ stdout' = Append(stdout, PrintOk)
           \/ SetInvalid(a[1], a[2]) /\ stdout' = Append(stdout, PrintError)
           \/ \E written \in {0, Len(record(a[1], a[2]))} :
                 /\ SetIOError(a[1], a[2], written)
                 /\ stdout' = Append(stdout, PrintError)
    /\ stdin' = Tail(stdin)
    /\ UNCHANGED <<rc, kv_store, stdin0>>

\* a GET line with an argument: store.get, then the value, "" or ERROR
run_cli_get ==
    /\ CliReady
    /\ ~parse(Head(stdin)).blank
    /\ parse(Head(stdin)).op = CmdGet
    /\ parse(Head(stdin)).rest # <<>>
    /\ get(parse(Head(stdin)).rest[1])
    /\ stdout' = Append(stdout, get_prints(get_returns(kv, parse(Head(stdin)).rest[1])))
    /\ stdin' = Tail(stdin)
    /\ UNCHANGED <<rc, kv_store, stdin0>>

\* the line is none of the commands dispatched before EXIT
NotSetNorGet(c) ==
    /\ ~(c.op = CmdSet /\ c.rest # <<>>)
    /\ ~(c.op = CmdGet /\ c.rest # <<>>)

\* an EXIT line: return 0, the lines after it are not read
run_cli_exit ==
    /\ CliReady
    /\ ~parse(Head(stdin)).blank
    /\ NotSetNorGet(parse(Head(stdin)))
    /\ parse(Head(stdin)).op = CmdExit
    /\ rc' = Status0
    /\ stdin' = Tail(stdin)
    /\ last' = Outcome("cli_exit", NoArg, "OK", NoArg)
    /\ UNCHANGED <<pc, kv, file, hist, stdout, kv_store, stdin0>>

\* a variant that answers what it does not understand
run_cli_skip_reporting ==
    /\ CliReady
    /\ \/ parse(Head(stdin)).blank
       \/ NotSetNorGet(parse(Head(stdin))) /\ parse(Head(stdin)).op # CmdExit
    /\ stdin' = Tail(stdin)
    /\ stdout' = Append(stdout, PrintError)
    /\ last' = Outcome("skip", NoArg, "OK", NoArg)
    /\ UNCHANGED <<pc, kv, file, hist, rc, kv_store, stdin0>>

\* a blank line, or a line that is no command: continue
run_cli_skip ==
    /\ CliReady
    /\ \/ parse(Head(stdin)).blank
       \/ NotSetNorGet(parse(Head(stdin))) /\ parse(Head(stdin)).op # CmdExit
    /\ stdin' = Tail(stdin)
    /\ last' = Outcome("skip", NoArg, "OK", NoArg)
    /\ UNCHANGED <<pc, kv, file, hist, stdout, rc, kv_store, stdin0>>

\* end of input: the loop ends and run_cli returns 0
run_cli_eof ==
    /\ pc = "Ready"
    /\ rc = Running
    /\ stdin = <<>>
    /\ rc' = Status0
    /\ last' = Outcome("eof", NoArg, "OK", NoArg)
    /\ UNCHANGED <<pc, kv, file, hist, stdin, stdout, kv_store, stdin0>>

\* input lines: SETs (with a value holding a space, in lower case with an
\* empty key), GETs (one with a key that is too long), EXIT, a blank line,
\* a command without its argument, an unknown command
CliLines ==
    { <<"S", "E", "T", " ", "a", " ", "1">>,
      <<"S", "E", "T", " ", "a", " ", "1", " ", "2">>,
      <<"s", "e", "t", " ", " ", "a">>,
      <<"G", "E", "T", " ", "a">>,
      CmdGet \o <<" ">> \o LongKey,
      CmdExit,
      <<" ">>,
      <<"g", "e", "t">>,
      <<"P", "U", "T", " ", "a", " ", "1">> }

\* number of lines of the input that reach store.set
RECURSIVE CountSets(_)
CountSets(lines) ==
    IF lines = <<>> THEN 0
    ELSE (IF parse(Head(lines)).op = CmdSet /\ parse(Head(lines)).rest # <<>>
          THEN 1 ELSE 0) + CountSets(Tail(lines))

CliInputs ==
    { in \in UNION { [1..n -> CliLines] : n \in 0..MaxCmds } :
        CountSets(in) <= MaxSets }

\* main: no log file yet, the input waits on stdin
InitCli ==
    /\ pc = "Uninitialized"
    /\ kv = EmptyTable
    /\ exists = FALSE
    /\ log = <<>>
    /\ bak = <<>>
    /\ last = Outcome("none", NoArg, "OK", NoArg)
    /\ acked = EmptyTable
    /\ attempted = {}
    /\ sets = <<>>
    /\ logAtLoad = <<>>
    /\ log0 = <<>>
    /\ loaded = EmptyTable
    /\ nLoads = 0
    /\ nSets = 0
    /\ nFaults = 0
    /\ dirty = FALSE
    /\ plain = TRUE
    /\ kv_store = <<>>
    /\ stdin \in CliInputs
    /\ stdout = <<>>
    /\ rc = Running
    /\ stdin0 = stdin

\* main: the store is built, then run_cli reads line after line
NextCli ==
    \/ __init__ /\ UNCHANGED ext
    \/ run_cli_set
    \/ run_cli_get
    \/ run_cli_exit
    \/ run_cli_skip
    \/ run_cli_eof

SpecCli == InitCli /\ [][NextCli]_vars

----------------------------------------------------------------------------
(* Properties *)

Some(value) == [res |-> "Some", out |-> value]

\* the process has just been restarted on a file an earlier process wrote
Restarted == pc = "Ready" /\ last.op = "load" /\ nLoads >= 2

\* C1: after any Sets that returned and a restart, get(k) returns the value
\* of the last Set of k, for every key that was set.
C1_RoundTrip ==
    Restarted => \A k \in DOMAIN acked : get_returns(kv, k) = Some(acked[k])

\* C2: a Set whose append fails with an I/O error leaves the Table as it was.
C2_FailedAppendLeavesTable ==
    [][(last'.op = "set" /\ last'.res = "IOError") => kv' = kv]_vars

\* The record format of the log: "SET ", a key that is a non-empty token
\* without spaces, one space, the value (the rest of the line, possibly
\* empty), and the newline that ends the line.
WellFormed(line) ==
    /\ Len(line) > Len(SetPrefix)
    /\ line[Len(line)] = "\n"
    /\ startswith(line, SetPrefix)
    /\ find(SubSeq(line, Len(SetPrefix) + 1, Len(line) - 1), " ") > 1

RecordKey(line) ==
    LET rest == SubSeq(line, Len(SetPrefix) + 1, Len(line) - 1)
    IN  SubSeq(rest, 1, find(rest, " ") - 1)

RecordValue(line) ==
    LET rest == SubSeq(line, Len(SetPrefix) + 1, Len(line) - 1)
    IN  SubSeq(rest, find(rest, " ") + 1, Len(rest))

\* key -> value of the last well-formed record of the key, over the lines
RECURSIVE LastRecords(_, _)
LastRecords(lines, table) ==
    IF lines = <<>> THEN table
    ELSE IF WellFormed(Head(lines))
    THEN LastRecords(Tail(lines),
                     put(table, RecordKey(Head(lines)), RecordValue(Head(lines))))
    ELSE LastRecords(Tail(lines), table)

\* C3: between operations the Table maps each key to the value of its last
\* well-formed record in the log, and holds no key the log has no record of.
\* (Stated for the histories whose acknowledged Sets used keys and values
\* that the log format can hold.)
C3_TableMatchesLog ==
    (pc = "Ready" /\ plain) => kv = LastRecords(readlines(log), EmptyTable)

\* C4: after crashes (also inside an append) and restarts, every Set that
\* returned is still recorded: after a restart get(k) returns the value of
\* the last acknowledged Set of k, or that of a later Set of k that did not
\* return.  (Stated for the histories whose acknowledged Sets used keys and
\* values that the log format can hold.)
C4_AcknowledgedSurviveCrash ==
    (Restarted /\ plain) =>
        \A k \in DOMAIN acked :
            \/ get_returns(kv, k) = Some(acked[k])
            \/ /\ get_returns(kv, k).res = "Some"
               /\ <<k, get_returns(kv, k).out>> \in attempted

\* the well-formed lines of the files replayed, as <<key, value>>
GoodRecords == { <<<<"a">>, <<"1">>>>, <<<<"b">>, <<"1", " ", "2">>>> }

\* C5: replaying one malformed line (another prefix, or a SET line with too
\* few fields) between two well-formed SET lines yields both keys with
\* their values.
C5_CorruptionTolerance ==
    \A r1 \in GoodRecords, r2 \in GoodRecords, bad \in {ShortLine, OtherLine} :
        ( /\ pc = "Ready" /\ last.op = "load" /\ nLoads = 1
          /\ log0 = record(r1[1], r1[2]) \o bad \o record(r2[1], r2[2]) )
        => /\ get_returns(kv, r2[1]) = Some(r2[2])
           /\ get_returns(kv, r1[1]) = Some(IF r1[1] = r2[1] THEN r2[2] ELSE r1[2])

IsPrefix(s, t) == Len(s) <= Len(t) /\ SubSeq(t, 1, Len(s)) = s

\* C6: no operation rewrites or truncates the log: across every step the
\* file stays and its previous content is a prefix of the new content.
C6_AppendOnly ==
    [][exists => (exists' /\ IsPrefix(log, log'))]_vars

\* C7: two Loads of the same file, one after the other with no Set between
\* them, produce identical Tables.
C7_IdempotentReplay ==
    [][(nLoads' = nLoads + 1 /\ nLoads >= 1 /\ ~dirty) => kv' = loaded]_vars

\* the keys among <<key, value>> pairs, and the value of the last pair of a key
KeysOf(pairs) == { pairs[i][1] : i \in DOMAIN pairs }

LastValue(pairs, k) ==
    pairs[CHOOSE i \in DOMAIN pairs :
            pairs[i][1] = k /\ \A j \in DOMAIN pairs : j > i => pairs[j][1] # k][2]

RecordLines(pairs) == [i \in DOMAIN pairs |-> record(pairs[i][1], pairs[i][2])]

\* C8: within one process, after Sets that returned, get(k) returns the value
\* of the most recent Set of k, and the log is the log the process found
\* followed by exactly one SET line per Set, in call order.
C8_LastWriteWinsOrderedLog ==
    pc = "Ready" =>
        /\ \A k \in KeysOf(sets) : get_returns(kv, k) = Some(LastValue(sets, k))
        /\ log = logAtLoad \o concat(RecordLines(sets))
        /\ readlines(log) = readlines(logAtLoad) \o RecordLines(sets)

\* a key was set twice in this process, to two values
C8_Witness ==
    /\ pc = "Ready"
    /\ Len(sets) = 2
    /\ sets[1][1] = sets[2][1]
    /\ sets[1][2] # sets[2][2]

\* C9: once a key was last set to the empty string, get of it differs from
\* get of a key that was never set, in the same process and after a restart.
C9_EmptyValueIsNotMissing ==
    \A k \in DOMAIN acked, m \in ValidKeys \ DOMAIN acked :
        (pc = "Ready" /\ acked[k] = <<>>)
        => get_returns(kv, k) # get_returns(kv, m)

\* C10: a Set with an empty key or a key longer than the maximum fails with
\* InvalidArgument and changes neither the Table nor the log file.
C10_InvalidKeyRejected ==
    [][(last'.op = "set" /\ (last'.key = <<>> \/ Len(last'.key) > MaxKeyLen))
       => (last'.res = "InvalidArgument" /\ kv' = kv /\ file' = file)]_vars

\* a Set with a key that is too long was rejected while the store held data
C10_Witness ==
    /\ last.op = "set"
    /\ Len(last.key) > MaxKeyLen
    /\ last.res = "InvalidArgument"
    /\ kv # EmptyTable
    /\ log # <<>>

\* the first Load of the file found at startup has just returned
FirstLoad == pc = "Ready" /\ last.op = "load" /\ nLoads = 1

\* the file ends in a line that has no terminating newline
TornTail(f) == f # <<>> /\ f[Len(f)] # "\n"

\* every newline-terminated line of the file is one of the well-formed records
GoodLinesOnly(f) ==
    \A i \in 1..Len(readlines(f)) :
        LET l == readlines(f)[i]
        IN  l[Len(l)] = "\n" =>
                \E r \in GoodRecords : l = record(r[1], r[2])

\* C11: on replay a partially written last line without newline is skipped:
\* it adds no record to the Table, replay is not aborted, and every earlier
\* well-formed record is recovered.
C11_TornTailSkipped ==
    (FirstLoad /\ TornTail(log0) /\ GoodLinesOnly(log0))
    => /\ kv = LastRecords(readlines(log0), EmptyTable)
       /\ last.res = "OK"

\* every line of the file is a well-formed record, ShortLine or OtherLine,
\* and one of the latter two is among them
OneBadLine(f) ==
    /\ \A i \in 1..Len(readlines(f)) :
          \/ readlines(f)[i] \in {ShortLine, OtherLine}
          \/ \E r \in GoodRecords : readlines(f)[i] = record(r[1], r[2])
    /\ \E i \in 1..Len(readlines(f)) : readlines(f)[i] \in {ShortLine, OtherLine}

\* C12: when replay meets a line that does not parse as a SET record, it
\* signals the condition to the caller (here: the warning) and recovers all
\* well-formed records before and after that line.
C12_CorruptionSignaled ==
    (FirstLoad /\ OneBadLine(log0))
    => /\ last.res = "Warning"
       /\ kv = LastRecords(readlines(log0), EmptyTable)

\* C13: when the log cannot be opened for reading at startup (the file is
\* there), Load fails with IOError, no Ready store is produced, and the log
\* file is not modified.
C13_UnreadableLogIsFatal ==
    [][(last'.op = "load_unreadable")
       => (last'.res = "IOError" /\ pc' = "Uninitialized" /\ file' = file)]_vars

\* C17: Get fails with InvalidArgument exactly for the keys Set rejects, and
\* returns a value or not-found for every other key.
C17_GetMirrorsSetValidation ==
    last.op = "get" =>
        IF ENABLED SetInvalid(last.key, NoArg)
        THEN last.res = "InvalidArgument"
        ELSE last.res \in {"Some", "None"}

\* a Get with a key that is too long was rejected
C17_Witness ==
    last.op = "get" /\ Len(last.key) > MaxKeyLen /\ last.res = "InvalidArgument"

\* C19: every key the Table holds is a key Set's validation accepts
\* (non-empty, at most 256 characters).
C19_TableKeysValid ==
    pc = "Ready" => \A k \in DOMAIN kv : k # <<>> /\ _validate_key(k)

\* C20: a Get leaves the Table and the log file as they are, and a second
\* Get of the same key right after it returns the same result.
C20_GetReadOnly ==
    [][(last'.op = "get")
       => /\ kv' = kv
          /\ file' = file
          /\ (last.op = "get" /\ last.key = last'.key)
                => (last'.res = last.res /\ last'.out = last.out)]_vars

\* a Get returned a stored, non-empty value
C20_Witness ==
    last.op = "get" /\ last.res = "Some" /\ last.out # <<>> /\ log # <<>>

\* C18: for every log file content and every following sequence of SETs,
\* the list store of kv_store.py and the KeyValueStore of kvstore.py return
\* the same value, or not-found, for every key.
C18_StoresEquivalent ==
    pc = "Ready" =>
        \A k \in ValidKeys : get_returns(kv, k) = get_from_memory(kv_store, k)

\* the line the loop read last
Consumed == stdin0[Len(stdin0) - Len(stdin)]

\* C14: a SET or GET that fails with InvalidArgument or IOError makes the
\* loop print ERROR and go on: it neither ends the process nor leaves the
\* loop, and when the loop ends it has read every line up to EXIT or the
\* end of the input and returns 0.
C14_ErrorsReportedLoopContinues ==
    /\ [][(/\ stdin # <<>>
           /\ stdin' = Tail(stdin)
           /\ last'.op \in {"set", "get"}
           /\ last'.res \in {"InvalidArgument", "IOError"})
          => (/\ stdout' = Append(stdout, PrintError)
              /\ rc' = Running
              /\ pc' = "Ready")]_vars
    /\ [](rc # Running => /\ rc = Status0
                          /\ stdin = <<>> \/ last.op = "cli_exit")

\* a failed command was reported and a later command was served
C14_Witness ==
    /\ Len(stdout) >= 2
    /\ stdout[1] = PrintError
    /\ stdout[2] = PrintOk
    /\ rc = Status0

\* the lines of the protocol: SET <key> <value> and GET <key>
ProtoKeys == {<<"a">>, <<"b">>}
ProtoValues == {<<"1">>, <<"1", " ", "2">>}
ProtoSet(k, v) == CmdSet \o <<" ">> \o k \o <<" ">> \o v
ProtoGet(k) == CmdGet \o <<" ">> \o k
IsProtoSet(l) == \E k \in ProtoKeys, v \in ProtoValues : l = ProtoSet(k, v)
SetsKey(l, k) == \E v \in ProtoValues : l = ProtoSet(k, v)

\* SETs and GETs, each GET after a SET of its key, then EXIT at line n
ProtocolUpTo(in, n) ==
    /\ in[n] = CmdExit
    /\ \A i \in 1..(n - 1) :
          \/ IsProtoSet(in[i])
          \/ \E k \in ProtoKeys :
                in[i] = ProtoGet(k) /\ \E j \in 1..(i - 1) : SetsKey(in[j], k)

\* what line i is to print: OK for a SET, for a GET the value of the most
\* recent SET of its key before it
Answer(in, i) ==
    IF IsProtoSet(in[i]) THEN PrintOk
    ELSE LET k == CHOOSE x \in ProtoKeys : in[i] = ProtoGet(x)
             j == CHOOSE x \in 1..(i - 1) :
                    /\ SetsKey(in[x], k)
                    /\ \A y \in (x + 1)..(i - 1) : ~SetsKey(in[y], k)
         IN  CHOOSE v \in ProtoValues : in[j] = ProtoSet(k, v)

\* the SET lines among the first n lines, in order, each ended by a newline
RECURSIVE SetLines(_, _)
SetLines(in, n) ==
    IF n = 0 THEN <<>>
    ELSE SetLines(in, n - 1)
           \o (IF IsProtoSet(in[n]) THEN in[n] \o <<"\n">> ELSE <<>>)

\* C15: for an input of SET <key> <value> and GET <key> lines followed by
\* EXIT, without I/O failure, the loop prints OK for each SET and for each
\* GET the value of the most recent SET of its key before it, reads no line
\* after EXIT and returns 0, and the log file holds exactly the SET lines
\* in input order.
C15_ProtocolSession ==
    \A n \in 1..Len(stdin0) :
        (rc # Running /\ nFaults = 0 /\ ProtocolUpTo(stdin0, n))
        => /\ rc = Status0
           /\ stdout = [i \in 1..(n - 1) |-> Answer(stdin0, i)]
           /\ stdin = SubSeq(stdin0, n + 1, Len(stdin0))
           /\ log = SetLines(stdin0, n - 1)

\* a session of two SETs of a key, a GET that printed the later value, and
\* EXIT has ended
C15_Witness ==
    /\ rc = Status0
    /\ nFaults = 0
    /\ Len(stdin0) = 4
    /\ ProtocolUpTo(stdin0, 4)
    /\ stdout = <<PrintOk, PrintOk, <<"1", " ", "2">>>>
    /\ log = ProtoSet(<<"a">>, <<"1">>) \o <<"\n">>
               \o ProtoSet(<<"a">>, <<"1", " ", "2">>) \o <<"\n">>

\* the line is a SET with arguments, a GET with an argument, or EXIT
\* (commands in either case, as the loop reads them)
Recognized(l) ==
    LET w == split(strip(l), " ", 1)
    IN  \/ upper(w[1]) = CmdSet /\ Len(w) = 2
        \/ upper(w[1]) = CmdGet /\ Len(w) = 2
        \/ upper(w[1]) = CmdExit

\* C16: an input line that is not a SET with arguments, a GET with an
\* argument, or EXIT (blank lines and unknown commands included) prints
\* nothing and changes neither the Table nor the log file.
C16_UnrecognizedIgnored ==
    [][(/\ stdin # <<>>
        /\ stdin' = Tail(stdin)
        /\ ~Recognized(Head(stdin)))
       => (stdout' = stdout /\ kv' = kv /\ file' = file)]_vars

\* an unknown command was read while the Table and the output were not empty
C16_Witness ==
    /\ last.op = "skip"
    /\ Len(stdin) < Len(stdin0)
    /\ strip(Consumed) # <<>>
    /\ upper(split(strip(Consumed), " ", 1)[1]) \notin {CmdSet, CmdGet}
    /\ kv # EmptyTable
    /\ stdout # <<>>

====
